---- MODULE Spec2Model ----
(***************************************************************************)
(* vMix controller: the desktop controller (src/main.py, VMixController)   *)
(* and the mobile controller (src/mobile/main.py, VMixControllerMobile),   *)
(* each talking to one mixer over HTTP through its vMixAPI client.         *)
(*                                                                         *)
(* Both programs run their handlers on one GUI thread and every request    *)
(* is a blocking requests.get, so a handler runs to completion before the  *)
(* next one starts.  The mixer is the environment: it answers each request *)
(* with an arbitrary outcome, and since its operator or another controller *)
(* may change program, preview and input list between any two requests,    *)
(* each state fetch that succeeds returns an arbitrary snapshot.           *)
(***************************************************************************)
EXTENDS Naturals, Integers, Sequences, FiniteSets, TLC

VARIABLES
    app,              \* which of the two programs runs: "desktop" or "mobile"
    vmix_api,         \* self.vmix_api is set (TRUE) or None (FALSE)
    connected,        \* mobile: BooleanProperty connected
    input_tiles,      \* desktop: keys of self.input_tiles, in insertion order
    inputs,           \* mobile: numbers of self.inputs, in list order
    active_input,     \* self.active_input
    preview_input,    \* self.preview_input
    ftb_active,       \* self.ftb_active
    ftb_timer,        \* desktop: self.ftb_timer is running
    active_overlays,  \* desktop: self.active_overlays, layer -> bool
    status,           \* the message the last handler put on the status bar
                      \* (status_bar.showMessage / status_text), "" if it put none
    mixer,            \* the mixer's fade-to-black state, [ftb |-> BOOLEAN]; where
                      \* the mixer is held still, also its active and preview
    pc,               \* position inside the running handler, "idle" between handlers
    new_active,       \* update_states: local new_active (NoneV outside it)
    new_preview,      \* update_states: local new_preview (NoneV outside it)
    loaded,           \* desktop load_inputs: local inputs (<<>> outside it)
    after_load,       \* mobile: status_text the caller of load_inputs sets on return
    op,               \* the handler that ran last
    sent,             \* the command requests that handler sent, with results
    fetched,          \* the state fetches that handler sent, with results
    notified,         \* the label refreshes that handler made: <<active, preview>>
    agreeing,         \* load_inputs, desktop update_states: the snapshots it was
                      \* served that agree with every value it has taken so far
    polls,            \* update_states calls that have started and not returned
    optimistic,       \* desktop: the handler before the running or last tick was an
                      \* on_tile_clicked or quick_play that stored its value
    api_call          \* a vMixAPI method called on its own: what requests.get
                      \* did and what the method returned

vars == <<app, vmix_api, connected, input_tiles, inputs, active_input,
          preview_input, ftb_active, ftb_timer, active_overlays, status,
          mixer, pc, new_active, new_preview, loaded, after_load, op, sent,
          fetched, notified, agreeing, polls, optimistic, api_call>>

local == <<vmix_api, connected, input_tiles, inputs, active_input,
           preview_input, ftb_active, ftb_timer, active_overlays>>

----------------------------------------------------------------------------
(* Bounds and value domains *)

\* how many distinct input numbers the mixer can hold
NumInputs == 2

\* Python's None
NoneV == "None"

\* a command sent without an Input parameter
NoInput == "-"

InputNumbers == {ToString(i) : i \in 1..NumInputs}

\* range(1, 5) of remove_overlay, the keys of active_overlays
Layers == 1..4

\* Python truthiness of an optional string: `not x` is true for None and ""
Truthy(x) == x # NoneV /\ x # ""

\* k inputs in document order, newest first: <<>>, <<"1">>, <<"2","1">>, ...
InputList(k) == [i \in 1..k |-> ToString(k + 1 - i)]

\* the mixer lists no input (an empty production) or all of them
InputLists == {InputList(0), InputList(NumInputs)}

\* text of the mixer's top-level active / preview element; NoneV: no element
ElementTexts == InputNumbers \cup {NoneV}

\* the state snapshots the mixer can serve
Snapshots == [active : ElementTexts, preview : ElementTexts, inputs : InputLists]

----------------------------------------------------------------------------
(* Transport: vMixAPI.send_command and vMixAPI.get_xml_data *)

\* what requests.get does for a command: raises, or returns a status code
CommandResponses == {[exc |-> FALSE, status_code |-> 200],
                     [exc |-> FALSE, status_code |-> 500],
                     [exc |-> TRUE, status_code |-> 0]}

\* a variant that takes every status below 400 as success, as response.ok does
send_command_any_success(resp) == IF resp.exc THEN FALSE ELSE resp.status_code < 400

\* True exactly on a response with status 200; any exception gives False
send_command(resp) == IF resp.exc THEN FALSE ELSE resp.status_code = 200

\* what send_command can return
CommandResults == {send_command(resp) : resp \in CommandResponses}

\* the mixer executes a command exactly when it answers it with HTTP 200
Answered(resp) == ~resp.exc /\ resp.status_code = 200

Request(command, input, resp) ==
    [command |-> command, Input |-> input, ok |-> send_command(resp)]

\* the mixer after a command request: FadeToBlack toggles its fade-to-black
MixerAfter(m, command, input, resp) ==
    IF ~Answered(resp) THEN m
    ELSE IF command = "FadeToBlack" THEN [m EXCEPT !.ftb = ~m.ftb] ELSE m

----------------------------------------------------------------------------
(* State fetch and decode: get_xml_data, get_inputs, get_active_input,      *)
(* get_preview_input                                                        *)

EmptyDoc == [active |-> NoneV, preview |-> NoneV, inputs |-> <<>>]

\* the body of a snapshot: inputs/input elements in document order and the
\* text of the top-level active and preview elements
Xml(snapshot) == [kind |-> "xml", doc |-> snapshot]

NoText == [kind |-> "None", doc |-> EmptyDoc]
EmptyText == [kind |-> "empty", doc |-> EmptyDoc]
GarbageText == [kind |-> "garbage", doc |-> EmptyDoc]

\* what requests.get does for a state fetch
FetchResponses ==
    {[exc |-> "ConnectionError", status_code |-> 0, text |-> NoText],
     [exc |-> "Timeout", status_code |-> 0, text |-> NoText],
     [exc |-> "none", status_code |-> 500, text |-> GarbageText],
     [exc |-> "none", status_code |-> 200, text |-> EmptyText],
     [exc |-> "none", status_code |-> 200, text |-> GarbageText]}
    \cup {[exc |-> "none", status_code |-> 200, text |-> Xml(snapshot)] :
             snapshot \in Snapshots}

\* response.text on status 200, None on any other status or exception
get_xml_data(resp) ==
    IF resp.exc # "none" THEN NoText
    ELSE IF resp.status_code = 200 THEN resp.text ELSE NoText

\* `if not xml_data`: None and the empty string are falsy
XmlTruthy(xml_data) == xml_data.kind \notin {"None", "empty"}

\* ET.fromstring raises on anything that is not well-formed XML
Parses(xml_data) == xml_data.kind = "xml"

get_inputs(resp) ==
    LET xml_data == get_xml_data(resp) IN
    IF ~XmlTruthy(xml_data) THEN <<>>
    ELSE IF ~Parses(xml_data) THEN <<>>
    ELSE xml_data.doc.inputs

get_active_input(resp) ==
    LET xml_data == get_xml_data(resp) IN
    IF ~XmlTruthy(xml_data) THEN NoneV
    ELSE IF ~Parses(xml_data) THEN NoneV
    ELSE xml_data.doc.active

get_preview_input(resp) ==
    LET xml_data == get_xml_data(resp) IN
    IF ~XmlTruthy(xml_data) THEN NoneV
    ELSE IF ~Parses(xml_data) THEN NoneV
    ELSE xml_data.doc.preview

\* the snapshot a fetch was served, if the request and the decode succeeded
Served(resp) ==
    LET xml_data == get_xml_data(resp) IN
    IF XmlTruthy(xml_data) /\ Parses(xml_data) THEN {xml_data.doc} ELSE {}

\* the snapshots of S whose `field` is the value that was installed
AgreeOn(S, field, value) == {snapshot \in S : snapshot[field] = value}

\* what update_states reads of a snapshot: its active and preview elements
Pairs(S) == {[active |-> snapshot.active, preview |-> snapshot.preview] : snapshot \in S}

\* a fetch as the history records it: which getter, and whether the
\* request and the decode both succeeded
Fetch(call, resp) ==
    [call |-> call,
     ok |-> XmlTruthy(get_xml_data(resp)) /\ Parses(get_xml_data(resp))]

----------------------------------------------------------------------------
\* no vMixAPI method has been called on its own
NoCall == [function |-> "none", kind |-> "none", response |-> "none",
           returned |-> "none"]

\* the controller as its constructor leaves it
Constructed ==
    /\ app \in {"desktop", "mobile"}
    /\ vmix_api = FALSE
    /\ connected = FALSE
    /\ input_tiles = <<>>
    /\ inputs = <<>>
    /\ active_input = NoneV
    /\ preview_input = NoneV
    /\ ftb_active = FALSE
    /\ ftb_timer = FALSE
    /\ active_overlays = [l \in Layers |-> FALSE]
    /\ status = ""
    /\ mixer = [ftb |-> FALSE]
    /\ pc = "idle"
    /\ new_active = NoneV
    /\ new_preview = NoneV
    /\ loaded = <<>>
    /\ after_load = ""
    /\ op = "init"
    /\ sent = <<>>
    /\ fetched = <<>>
    /\ notified = <<>>
    /\ agreeing = {}
    /\ polls = 0
    /\ optimistic = FALSE

Init == Constructed /\ api_call = NoCall

----------------------------------------------------------------------------
(* Desktop command handlers (src/main.py).  Each sends its requests and     *)
(* returns before any other handler runs.                                   *)

Range(f) == {f[i] : i \in DOMAIN f}

\* no handler is running
Idle == pc = "idle"

\* handler `name` stored a value on the success of one of its `requests`
OptimisticUpdate(name, requests) ==
    /\ name \in {"on_tile_clicked", "quick_play"}
    /\ \E i \in DOMAIN requests : requests[i].ok

\* what a handler leaves alone besides the fields it names
NoFetch == /\ pc' = "idle"
           /\ new_active' = NoneV
           /\ new_preview' = NoneV
           /\ loaded' = <<>>
           /\ after_load' = ""
           /\ fetched' = <<>>
           /\ agreeing' = {}
           /\ polls' = polls
           /\ optimistic' = (app = "desktop" /\ OptimisticUpdate(op', sent'))
           /\ UNCHANGED api_call

\* the guard `if not self.vmix_api` of a handler: a message and nothing else
NotConnected(name, message) ==
    /\ ~vmix_api
    /\ op' = name
    /\ status' = message
    /\ sent' = <<>>
    /\ notified' = <<>>
    /\ NoFetch
    /\ UNCHANGED <<app, local, mixer>>

\* a variant that stores the number without looking at the result
on_tile_clicked_body_unconfirmed(preview, active, number, resp) ==
    [preview_input |-> number,
     notified |-> <<<<active, number>>>>,
     status |-> IF send_command(resp) THEN "Set to preview" ELSE "Preview set error",
     sent |-> <<Request("PreviewInput", number, resp)>>]

on_tile_clicked_body(preview, active, number, resp) ==
    LET success == send_command(resp) IN
    [preview_input |-> IF success THEN number ELSE preview,
     notified |-> IF success THEN <<<<active, number>>>> ELSE <<>>,
     status |-> IF success THEN "Set to preview" ELSE "Preview set error",
     sent |-> <<Request("PreviewInput", number, resp)>>]

on_tile_clicked(number, resp) ==
    /\ app = "desktop"
    /\ Idle
    /\ \/ NotConnected("on_tile_clicked", "Not connected to vMix")
       \/ /\ vmix_api
          /\ LET r == on_tile_clicked_body(preview_input, active_input, number, resp) IN
             /\ preview_input' = r.preview_input
             /\ notified' = r.notified
             /\ status' = r.status
             /\ sent' = r.sent
          /\ mixer' = MixerAfter(mixer, "PreviewInput", number, resp)
          /\ op' = "on_tile_clicked"
          /\ NoFetch
          /\ UNCHANGED <<app, vmix_api, connected, input_tiles, inputs,
                         active_input, ftb_active, ftb_timer, active_overlays>>

\* a variant whose Cut fallback forgets to store the new program input
quick_play_body_cut_lost(preview, active, rFade, rCut) ==
    LET fade == Request("Fade", preview, rFade)
        cut == Request("Cut", preview, rCut)
    IN  IF send_command(rFade)
        THEN [active_input |-> preview, notified |-> <<<<preview, preview>>>>,
              status |-> "Smooth transition", sent |-> <<fade>>]
        ELSE IF send_command(rCut)
        THEN [active_input |-> active, notified |-> <<<<active, preview>>>>,
              status |-> "Cut transition", sent |-> <<fade, cut>>]
        ELSE [active_input |-> active, notified |-> <<>>,
              status |-> "Transition error", sent |-> <<fade, cut>>]

\* a variant that stores the new program input before it knows the result
quick_play_body_optimistic(preview, active, rFade, rCut) ==
    LET fade == Request("Fade", preview, rFade)
        cut == Request("Cut", preview, rCut)
    IN  IF send_command(rFade)
        THEN [active_input |-> preview, notified |-> <<<<preview, preview>>>>,
              status |-> "Smooth transition", sent |-> <<fade>>]
        ELSE IF send_command(rCut)
        THEN [active_input |-> preview, notified |-> <<<<preview, preview>>>>,
              status |-> "Cut transition", sent |-> <<fade, cut>>]
        ELSE [active_input |-> preview, notified |-> <<>>,
              status |-> "Transition error", sent |-> <<fade, cut>>]

\* a variant that sends the Cut whatever the Fade returned
quick_play_body_always_cut(preview, active, rFade, rCut) ==
    LET fade == Request("Fade", preview, rFade)
        cut == Request("Cut", preview, rCut)
    IN  IF send_command(rFade) \/ send_command(rCut)
        THEN [active_input |-> preview, notified |-> <<<<preview, preview>>>>,
              status |-> IF send_command(rFade) THEN "Smooth transition"
                                                ELSE "Cut transition",
              sent |-> <<fade, cut>>]
        ELSE [active_input |-> active, notified |-> <<>>,
              status |-> "Transition error", sent |-> <<fade, cut>>]

quick_play_body(preview, active, rFade, rCut) ==
    LET success == send_command(rFade)
        success_cut == send_command(rCut)
        fade == Request("Fade", preview, rFade)
        cut == Request("Cut", preview, rCut)
    IN  IF success
        THEN [active_input |-> preview,
              notified |-> <<<<preview, preview>>>>,
              status |-> "Smooth transition",
              sent |-> <<fade>>]
        ELSE IF success_cut
        THEN [active_input |-> preview,
              notified |-> <<<<preview, preview>>>>,
              status |-> "Cut transition",
              sent |-> <<fade, cut>>]
        ELSE [active_input |-> active,
              notified |-> <<>>,
              status |-> "Transition error",
              sent |-> <<fade, cut>>]

\* the mixer after the requests of `reqs`, answered by `resps` in order
RECURSIVE MixerAfterAll(_, _, _)
MixerAfterAll(m, reqs, resps) ==
    IF reqs = <<>> THEN m
    ELSE MixerAfterAll(MixerAfter(m, Head(reqs).command, Head(reqs).Input, Head(resps)),
                       Tail(reqs), Tail(resps))

\* `if not self.vmix_api or not self.preview_input` fails
quick_play_guard(api, preview) == api /\ Truthy(preview)

quick_play(rFade, rCut) ==
    /\ app = "desktop"
    /\ Idle
    /\ \/ /\ ~quick_play_guard(vmix_api, preview_input)
          /\ op' = "quick_play"
          /\ status' = "Select input in preview first!"
          /\ sent' = <<>>
          /\ notified' = <<>>
          /\ NoFetch
          /\ UNCHANGED <<app, local, mixer>>
       \/ /\ quick_play_guard(vmix_api, preview_input)
          /\ LET r == quick_play_body(preview_input, active_input, rFade, rCut) IN
             /\ active_input' = r.active_input
             /\ notified' = r.notified
             /\ status' = r.status
             /\ sent' = r.sent
             /\ mixer' = MixerAfterAll(mixer, r.sent, <<rFade, rCut>>)
          /\ op' = "quick_play"
          /\ NoFetch
          /\ UNCHANGED <<app, vmix_api, connected, input_tiles, inputs,
                         preview_input, ftb_active, ftb_timer, active_overlays>>

fade_to_black_body(ftb, timer, resp) ==
    LET flipped == ~ftb
        success == send_command(resp)
    IN  IF flipped
        THEN IF success
             THEN [ftb_active |-> TRUE, ftb_timer |-> TRUE,
                   status |-> "Fade To Black enabled"]
             ELSE [ftb_active |-> FALSE, ftb_timer |-> timer,
                   status |-> "Fade To Black error"]
        ELSE IF success
             THEN [ftb_active |-> FALSE, ftb_timer |-> FALSE,
                   status |-> "Fade To Black disabled"]
             ELSE [ftb_active |-> FALSE, ftb_timer |-> timer,
                   status |-> ""]

fade_to_black(resp) ==
    /\ app = "desktop"
    /\ Idle
    /\ \/ NotConnected("fade_to_black", "Not connected to vMix")
       \/ /\ vmix_api
          /\ LET r == fade_to_black_body(ftb_active, ftb_timer, resp) IN
             /\ ftb_active' = r.ftb_active
             /\ ftb_timer' = r.ftb_timer
             /\ status' = r.status
          /\ sent' = <<Request("FadeToBlack", NoInput, resp)>>
          /\ mixer' = MixerAfter(mixer, "FadeToBlack", NoInput, resp)
          /\ notified' = <<>>
          /\ op' = "fade_to_black"
          /\ NoFetch
          /\ UNCHANGED <<app, vmix_api, connected, input_tiles, inputs,
                         active_input, preview_input, active_overlays>>

OverlayInput(layer) == "OverlayInput" \o ToString(layer)

\* a variant that sets the flag instead of flipping it
overlay_selected_body_set(overlays, preview, layer, resp) ==
    LET success == send_command(resp) IN
    [active_overlays |-> IF success THEN [overlays EXCEPT ![layer] = TRUE] ELSE overlays,
     status |-> IF success THEN "Overlay on layer" ELSE "Overlay on layer error",
     sent |-> <<Request(OverlayInput(layer), preview, resp)>>]

overlay_selected_body(overlays, preview, layer, resp) ==
    LET success == send_command(resp) IN
    [active_overlays |-> IF success
                         THEN [overlays EXCEPT ![layer] = ~overlays[layer]]
                         ELSE overlays,
     status |-> IF success THEN "Overlay on layer" ELSE "Overlay on layer error",
     sent |-> <<Request(OverlayInput(layer), preview, resp)>>]

\* `if not self.vmix_api or not self.preview_input` fails
overlay_selected_guard(api, preview) == api /\ Truthy(preview)

overlay_selected(layer, resp) ==
    /\ app = "desktop"
    /\ Idle
    /\ \/ /\ ~overlay_selected_guard(vmix_api, preview_input)
          /\ op' = "overlay_selected"
          /\ status' = "Select input in preview first!"
          /\ sent' = <<>>
          /\ notified' = <<>>
          /\ NoFetch
          /\ UNCHANGED <<app, local, mixer>>
       \/ /\ overlay_selected_guard(vmix_api, preview_input)
          /\ LET r == overlay_selected_body(active_overlays, preview_input, layer, resp) IN
             /\ active_overlays' = r.active_overlays
             /\ status' = r.status
             /\ sent' = r.sent
          /\ notified' = <<>>
          /\ op' = "overlay_selected"
          /\ NoFetch
          /\ UNCHANGED <<app, vmix_api, connected, input_tiles, inputs, active_input,
                         preview_input, ftb_active, ftb_timer, mixer>>

\* a variant that clears a layer's flag only when its request succeeded
RECURSIVE remove_overlay_loop_on_success(_, _, _, _)
remove_overlay_loop_on_success(layer, overlays, requests, results) ==
    IF layer > 4 THEN [active_overlays |-> overlays, sent |-> requests]
    ELSE remove_overlay_loop_on_success(
             layer + 1,
             IF results[layer] THEN [overlays EXCEPT ![layer] = FALSE] ELSE overlays,
             Append(requests, [command |-> OverlayInput(layer) \o "Out",
                               Input |-> NoInput, ok |-> results[layer]]),
             results)

\* the loop `for layer in range(1, 5)`: one Out request per layer, then the
\* layer's flag cleared whatever send_command returned
RECURSIVE remove_overlay_loop(_, _, _, _)
remove_overlay_loop(layer, overlays, requests, results) ==
    IF layer > 4 THEN [active_overlays |-> overlays, sent |-> requests]
    ELSE remove_overlay_loop(
             layer + 1,
             [overlays EXCEPT ![layer] = FALSE],
             Append(requests, [command |-> OverlayInput(layer) \o "Out",
                               Input |-> NoInput, ok |-> results[layer]]),
             results)

remove_overlay_body(overlays, results) ==
    LET r == remove_overlay_loop(1, overlays, <<>>, results) IN
    [active_overlays |-> r.active_overlays,
     sent |-> r.sent,
     status |-> "All overlays removed"]

\* a variant that also takes the controller out of fade-to-black
remove_overlay_resetting_ftb(results) ==
    /\ app = "desktop"
    /\ Idle
    /\ \/ NotConnected("remove_overlay", "Not connected to vMix")
       \/ /\ vmix_api
          /\ LET r == remove_overlay_body(active_overlays, results) IN
             /\ active_overlays' = r.active_overlays
             /\ status' = r.status
             /\ sent' = r.sent
          /\ ftb_active' = FALSE
          /\ ftb_timer' = FALSE
          /\ notified' = <<>>
          /\ op' = "remove_overlay"
          /\ NoFetch
          /\ UNCHANGED <<app, vmix_api, connected, input_tiles, inputs, active_input,
                         preview_input, mixer>>

\* results[layer]: what send_command returned for that layer's request
remove_overlay(results) ==
    /\ app = "desktop"
    /\ Idle
    /\ \/ NotConnected("remove_overlay", "Not connected to vMix")
       \/ /\ vmix_api
          /\ LET r == remove_overlay_body(active_overlays, results) IN
             /\ active_overlays' = r.active_overlays
             /\ status' = r.status
             /\ sent' = r.sent
          /\ notified' = <<>>
          /\ op' = "remove_overlay"
          /\ NoFetch
          /\ UNCHANGED <<app, vmix_api, connected, input_tiles, inputs, active_input,
                         preview_input, ftb_active, ftb_timer, mixer>>

----------------------------------------------------------------------------
(* Desktop connect, relist and poll (src/main.py).  A handler that fetches  *)
(* the state more than once blocks in each request; pc is its position, no  *)
(* other handler starts until it is back to "idle", and only the mixer      *)
(* moves in between.                                                        *)

\* a handler starts: nothing of the previous handler's record is kept
Begin(name) ==
    /\ op' = name
    /\ sent' = <<>>
    /\ notified' = <<>>
    /\ new_active' = NoneV
    /\ new_preview' = NoneV
    /\ loaded' = <<>>
    /\ after_load' = ""
    /\ agreeing' = {}
    /\ polls' = polls
    /\ optimistic' = FALSE
    /\ UNCHANGED api_call

\* a later step of the running handler
Continue == UNCHANGED <<op, sent, after_load, optimistic, api_call>>

\* a variant that keeps the client object of a failed attempt
connect_to_vmix_keeps_api(ip, resp) ==
    /\ app = "desktop"
    /\ Idle
    /\ Begin("connect_to_vmix")
    /\ IF ~Truthy(ip)
       THEN /\ status' = "Enter vMix IP address!"
            /\ fetched' = <<>>
            /\ pc' = "idle"
            /\ UNCHANGED vmix_api
       ELSE LET xml_data == get_xml_data(resp) IN
            /\ fetched' = <<[call |-> "get_xml_data", ok |-> XmlTruthy(xml_data)]>>
            /\ vmix_api' = TRUE
            /\ IF XmlTruthy(xml_data)
               THEN /\ status' = "Connected to vMix"
                    /\ pc' = "load_inputs"
               ELSE /\ status' = "Failed to connect to vMix"
                    /\ pc' = "idle"
    /\ UNCHANGED <<app, connected, input_tiles, inputs, active_input, preview_input,
                   ftb_active, ftb_timer, active_overlays, mixer>>

connect_to_vmix(ip, resp) ==
    /\ app = "desktop"
    /\ Idle
    /\ Begin("connect_to_vmix")
    /\ IF ~Truthy(ip)
       THEN /\ status' = "Enter vMix IP address!"
            /\ fetched' = <<>>
            /\ pc' = "idle"
            /\ UNCHANGED vmix_api
       ELSE LET xml_data == get_xml_data(resp) IN
            /\ fetched' = <<[call |-> "get_xml_data", ok |-> XmlTruthy(xml_data)]>>
            /\ IF XmlTruthy(xml_data)
               THEN /\ vmix_api' = TRUE
                    /\ status' = "Connected to vMix"
                    /\ pc' = "load_inputs"
               ELSE /\ vmix_api' = FALSE
                    /\ status' = "Failed to connect to vMix"
                    /\ pc' = "idle"
    /\ UNCHANGED <<app, connected, input_tiles, inputs, active_input, preview_input,
                   ftb_active, ftb_timer, active_overlays, mixer>>

\* a variant whose relist puts overlays and fade-to-black back to defaults
refresh_inputs_resetting ==
    /\ app = "desktop"
    /\ Idle
    /\ Begin("refresh_inputs")
    /\ fetched' = <<>>
    /\ IF ~vmix_api
       THEN /\ status' = "Connect to vMix first!"
            /\ pc' = "idle"
            /\ UNCHANGED <<ftb_active, active_overlays>>
       ELSE /\ status' = "Refreshing inputs list..."
            /\ pc' = "load_inputs"
            /\ ftb_active' = FALSE
            /\ active_overlays' = [l \in Layers |-> FALSE]
    /\ UNCHANGED <<app, vmix_api, connected, input_tiles, inputs, active_input,
                   preview_input, ftb_timer, mixer>>

refresh_inputs ==
    /\ app = "desktop"
    /\ Idle
    /\ Begin("refresh_inputs")
    /\ fetched' = <<>>
    /\ IF ~vmix_api
       THEN /\ status' = "Connect to vMix first!"
            /\ pc' = "idle"
       ELSE /\ status' = "Refreshing inputs list..."
            /\ pc' = "load_inputs"
    /\ UNCHANGED <<app, local, mixer>>

\* load_inputs up to `if not inputs: return`: the tiles are cleared first
load_inputs(resp) ==
    /\ app = "desktop"
    /\ pc = "load_inputs"
    /\ Continue
    /\ fetched' = Append(fetched, Fetch("get_inputs", resp))
    /\ input_tiles' = <<>>
    /\ LET got == get_inputs(resp) IN
       IF got = <<>>
       THEN /\ status' = "Failed to get inputs list"
            /\ loaded' = <<>>
            /\ agreeing' = {}
            /\ pc' = "idle"
       ELSE /\ loaded' = got
            /\ agreeing' = Served(resp)
            /\ pc' = "load_active"
            /\ UNCHANGED status
    /\ UNCHANGED <<app, vmix_api, connected, inputs, active_input, preview_input,
                   ftb_active, ftb_timer, active_overlays, mixer, new_active,
                   new_preview, notified, polls>>

load_inputs_active(resp) ==
    /\ app = "desktop"
    /\ pc = "load_active"
    /\ Continue
    /\ fetched' = Append(fetched, Fetch("get_active_input", resp))
    /\ active_input' = get_active_input(resp)
    /\ agreeing' = AgreeOn(agreeing, "active", active_input')
                       \cup AgreeOn(Served(resp), "inputs", loaded)
    /\ pc' = "load_preview"
    /\ UNCHANGED <<app, vmix_api, connected, input_tiles, inputs, preview_input,
                   ftb_active, ftb_timer, active_overlays, mixer, new_active,
                   new_preview, loaded, notified, status, polls>>

\* the rest of load_inputs: preview, one tile per input, the labels
load_inputs_preview(resp) ==
    /\ app = "desktop"
    /\ pc = "load_preview"
    /\ Continue
    /\ fetched' = Append(fetched, Fetch("get_preview_input", resp))
    /\ preview_input' = get_preview_input(resp)
    /\ input_tiles' = loaded
    /\ loaded' = <<>>
    /\ notified' = Append(notified, <<active_input, preview_input'>>)
    /\ status' = "Loaded inputs"
    /\ agreeing' = AgreeOn(agreeing, "preview", preview_input')
                       \cup AgreeOn(AgreeOn(Served(resp), "inputs", loaded),
                                    "active", active_input)
    /\ pc' = "idle"
    /\ UNCHANGED <<app, vmix_api, connected, inputs, active_input, ftb_active,
                   ftb_timer, active_overlays, mixer, new_active, new_preview, polls>>

\* a variant in which the timer runs its callback on a thread of its own
TimerDelivers_threaded(position) == TRUE

\* the timer's timeout is an event of the GUI thread's loop: update_states is
\* called only when no handler is running
TimerDelivers(position) == position = "idle"

\* update_states up to its second fetch; without vmix_api the tick does nothing
update_states(resp) ==
    /\ app = "desktop"
    /\ TimerDelivers(pc)
    /\ op' = "update_states"
    /\ sent' = <<>>
    /\ notified' = <<>>
    /\ agreeing' = IF vmix_api THEN Pairs(Served(resp)) ELSE {}
    /\ optimistic' = (optimistic /\ op # "update_states")
    /\ UNCHANGED api_call
    /\ polls' = IF vmix_api THEN polls + 1 ELSE polls
    /\ new_preview' = NoneV
    /\ loaded' = <<>>
    /\ after_load' = ""
    /\ IF ~vmix_api
       THEN /\ fetched' = <<>>
            /\ pc' = "idle"
       ELSE /\ fetched' = <<Fetch("get_active_input", resp)>>
            /\ pc' = "update_preview"
    /\ new_active' = IF vmix_api THEN get_active_input(resp) ELSE NoneV
    /\ status' = ""
    /\ UNCHANGED <<app, local, mixer>>

\* a variant that compares the program input only
update_states_body_active_only(active, preview, newa, newp) ==
    IF newa # active
    THEN [active_input |-> newa, preview_input |-> newp,
          notified |-> <<<<newa, newp>>>>]
    ELSE [active_input |-> active, preview_input |-> preview, notified |-> <<>>]

\* a variant that keeps a preview input the controller already has
update_states_body_first_wins(active, preview, newa, newp) ==
    IF newa # active \/ newp # preview
    THEN [active_input |-> newa,
          preview_input |-> IF Truthy(preview) THEN preview ELSE newp,
          notified |-> <<<<newa, newp>>>>]
    ELSE [active_input |-> active, preview_input |-> preview, notified |-> <<>>]

\* a variant that stores the two fetched values the wrong way round
update_states_body_swapped(active, preview, newa, newp) ==
    IF newa # active \/ newp # preview
    THEN [active_input |-> newp, preview_input |-> newa,
          notified |-> <<<<newp, newa>>>>]
    ELSE [active_input |-> active, preview_input |-> preview, notified |-> <<>>]

\* the comparison of update_states and what it stores
update_states_body(active, preview, newa, newp) ==
    IF newa # active \/ newp # preview
    THEN [active_input |-> newa, preview_input |-> newp,
          notified |-> <<<<newa, newp>>>>]
    ELSE [active_input |-> active, preview_input |-> preview, notified |-> <<>>]

\* a variant that gives the session up when a fetch of the tick failed
update_states_preview_disconnecting(resp) ==
    /\ app = "desktop"
    /\ pc = "update_preview"
    /\ Continue
    /\ fetched' = Append(fetched, Fetch("get_preview_input", resp))
    /\ new_preview' = get_preview_input(resp)
    /\ LET r == update_states_body(active_input, preview_input, new_active, new_preview') IN
       /\ active_input' = r.active_input
       /\ preview_input' = r.preview_input
       /\ notified' = r.notified
    /\ vmix_api' = (fetched'[1].ok /\ fetched'[2].ok)
    /\ pc' = "idle"
    /\ polls' = polls - 1
    /\ UNCHANGED <<app, connected, input_tiles, inputs, ftb_active,
                   ftb_timer, active_overlays, mixer, new_active, loaded, status,
                   agreeing>>

\* a variant that also installs the input list of the snapshot it fetched
update_states_preview_relisting(resp) ==
    /\ app = "desktop"
    /\ pc = "update_preview"
    /\ Continue
    /\ fetched' = Append(fetched, Fetch("get_preview_input", resp))
    /\ new_preview' = get_preview_input(resp)
    /\ LET r == update_states_body(active_input, preview_input, new_active, new_preview') IN
       /\ active_input' = r.active_input
       /\ preview_input' = r.preview_input
       /\ notified' = r.notified
    /\ input_tiles' = IF Served(resp) = {} THEN input_tiles ELSE get_inputs(resp)
    /\ pc' = "idle"
    /\ polls' = polls - 1
    /\ UNCHANGED <<app, vmix_api, connected, inputs, ftb_active,
                   ftb_timer, active_overlays, mixer, new_active, loaded, status,
                   agreeing>>

update_states_preview(resp) ==
    /\ app = "desktop"
    /\ pc = "update_preview"
    /\ Continue
    /\ fetched' = Append(fetched, Fetch("get_preview_input", resp))
    /\ new_preview' = get_preview_input(resp)
    /\ LET r == update_states_body(active_input, preview_input, new_active, new_preview') IN
       /\ active_input' = r.active_input
       /\ preview_input' = r.preview_input
       /\ notified' = r.notified
    /\ agreeing' = AgreeOn(agreeing, "preview", new_preview')
                       \cup AgreeOn(Pairs(Served(resp)), "active", new_active)
    /\ pc' = "idle"
    /\ polls' = polls - 1
    /\ UNCHANGED <<app, vmix_api, connected, input_tiles, inputs, ftb_active,
                   ftb_timer, active_overlays, mixer, new_active, loaded, status>>

----------------------------------------------------------------------------
(* Mobile controller (src/mobile/main.py) *)

mobile_connect_to_vmix(ip, resp) ==
    /\ app = "mobile"
    /\ Idle
    /\ Begin("connect_to_vmix")
    /\ new_active' = NoneV
    /\ new_preview' = NoneV
    /\ IF ~Truthy(ip)
       THEN /\ status' = "Enter IP address"
            /\ fetched' = <<>>
            /\ pc' = "idle"
            /\ UNCHANGED <<vmix_api, connected>>
       ELSE LET xml_data == get_xml_data(resp) IN
            /\ vmix_api' = TRUE
            /\ fetched' = <<[call |-> "get_xml_data", ok |-> XmlTruthy(xml_data)]>>
            /\ IF XmlTruthy(xml_data)
               THEN /\ status' = "Connected"
                    /\ connected' = TRUE
                    /\ pc' = "load_inputs"
               ELSE /\ status' = "Failed to connect"
                    /\ connected' = FALSE
                    /\ pc' = "idle"
    /\ UNCHANGED <<app, input_tiles, inputs, active_input, preview_input,
                   ftb_active, ftb_timer, active_overlays, mixer>>

mobile_load_inputs(resp) ==
    /\ app = "mobile"
    /\ pc = "load_inputs"
    /\ Continue
    /\ fetched' = Append(fetched, Fetch("get_inputs", resp))
    /\ inputs' = get_inputs(resp)
    /\ agreeing' = Served(resp)
    /\ pc' = "load_active"
    /\ UNCHANGED <<app, vmix_api, connected, input_tiles, active_input, preview_input,
                   ftb_active, ftb_timer, active_overlays, mixer, new_active,
                   new_preview, loaded, notified, status, polls>>

mobile_load_inputs_active(resp) ==
    /\ app = "mobile"
    /\ pc = "load_active"
    /\ Continue
    /\ fetched' = Append(fetched, Fetch("get_active_input", resp))
    /\ active_input' = get_active_input(resp)
    /\ agreeing' = AgreeOn(agreeing, "active", active_input')
                       \cup AgreeOn(Served(resp), "inputs", inputs)
    /\ pc' = "load_preview"
    /\ UNCHANGED <<app, vmix_api, connected, input_tiles, inputs, preview_input,
                   ftb_active, ftb_timer, active_overlays, mixer, new_active,
                   new_preview, loaded, notified, status, polls>>

\* the rest of load_inputs, then the caller's status_text
mobile_load_inputs_preview(resp) ==
    /\ app = "mobile"
    /\ pc = "load_preview"
    /\ Continue
    /\ fetched' = Append(fetched, Fetch("get_preview_input", resp))
    /\ preview_input' = get_preview_input(resp)
    /\ notified' = Append(notified, <<active_input, preview_input'>>)
    /\ status' = IF after_load # "" THEN after_load ELSE status
    /\ agreeing' = AgreeOn(agreeing, "preview", preview_input')
                       \cup AgreeOn(AgreeOn(Served(resp), "inputs", inputs),
                                    "active", active_input)
    /\ polls' = IF op = "update_states" THEN polls - 1 ELSE polls
    /\ pc' = "idle"
    /\ UNCHANGED <<app, vmix_api, connected, input_tiles, inputs, active_input,
                   ftb_active, ftb_timer, active_overlays, mixer, new_active,
                   new_preview, loaded>>

\* `if not self.vmix_api: return`
mobile_return(name) ==
    /\ ~vmix_api
    /\ op' = name
    /\ sent' = <<>>
    /\ notified' = <<>>
    /\ status' = ""
    /\ NoFetch
    /\ UNCHANGED <<app, local, mixer>>

\* the handlers that end in self.load_inputs()
mobile_then_load(name, message) ==
    /\ op' = name
    /\ notified' = <<>>
    /\ new_active' = NoneV
    /\ new_preview' = NoneV
    /\ loaded' = <<>>
    /\ fetched' = <<>>
    /\ after_load' = message
    /\ status' = ""
    /\ agreeing' = {}
    /\ polls' = polls
    /\ optimistic' = FALSE
    /\ UNCHANGED api_call
    /\ pc' = "load_inputs"

mobile_on_input_clicked(number, resp) ==
    /\ app = "mobile"
    /\ Idle
    /\ \/ mobile_return("on_input_clicked")
       \/ /\ vmix_api
          /\ sent' = <<Request("PreviewInput", number, resp)>>
          /\ mixer' = MixerAfter(mixer, "PreviewInput", number, resp)
          /\ preview_input' = number
          /\ mobile_then_load("on_input_clicked", "Preview")
          /\ UNCHANGED <<app, vmix_api, connected, input_tiles, inputs, active_input,
                         ftb_active, ftb_timer, active_overlays>>

\* a variant that forgets the preview
mobile_quick_play_guard_api_only(api, preview) == api

\* `if not self.vmix_api or not self.preview_input` fails
mobile_quick_play_guard(api, preview) == api /\ Truthy(preview)

mobile_quick_play(resp) ==
    /\ app = "mobile"
    /\ Idle
    /\ \/ /\ ~mobile_quick_play_guard(vmix_api, preview_input)
          /\ op' = "quick_play"
          /\ status' = "Select preview first"
          /\ sent' = <<>>
          /\ notified' = <<>>
          /\ NoFetch
          /\ UNCHANGED <<app, local, mixer>>
       \/ /\ mobile_quick_play_guard(vmix_api, preview_input)
          /\ sent' = <<Request("Fade", preview_input, resp)>>
          /\ mixer' = MixerAfter(mixer, "Fade", preview_input, resp)
          /\ active_input' = preview_input
          /\ mobile_then_load("quick_play", "Transition to")
          /\ UNCHANGED <<app, vmix_api, connected, input_tiles, inputs, preview_input,
                         ftb_active, ftb_timer, active_overlays>>

mobile_fade_to_black(resp) ==
    /\ app = "mobile"
    /\ Idle
    /\ \/ mobile_return("fade_to_black")
       \/ /\ vmix_api
          /\ ftb_active' = ~ftb_active
          /\ sent' = <<Request("FadeToBlack", NoInput, resp)>>
          /\ mixer' = MixerAfter(mixer, "FadeToBlack", NoInput, resp)
          /\ status' = IF ftb_active' THEN "FTB: ON" ELSE "FTB: OFF"
          /\ op' = "fade_to_black"
          /\ notified' = <<>>
          /\ NoFetch
          /\ UNCHANGED <<app, vmix_api, connected, input_tiles, inputs, active_input,
                         preview_input, ftb_timer, active_overlays>>

\* `if not self.vmix_api or not self.preview_input` fails
mobile_overlay_selected_guard(api, preview) == api /\ Truthy(preview)

mobile_overlay_selected(layer, resp) ==
    /\ app = "mobile"
    /\ Idle
    /\ op' = "overlay_selected"
    /\ notified' = <<>>
    /\ NoFetch
    /\ IF ~mobile_overlay_selected_guard(vmix_api, preview_input)
       THEN /\ status' = "Select preview first"
            /\ sent' = <<>>
       ELSE /\ status' = "Overlay on layer"
            /\ sent' = <<Request(OverlayInput(layer), preview_input, resp)>>
    /\ UNCHANGED <<app, local, mixer>>

mobile_update_states(resp) ==
    /\ app = "mobile"
    /\ TimerDelivers(pc)
    /\ op' = "update_states"
    /\ sent' = <<>>
    /\ notified' = <<>>
    /\ agreeing' = {}
    /\ optimistic' = FALSE
    /\ UNCHANGED api_call
    /\ polls' = IF vmix_api THEN polls + 1 ELSE polls
    /\ new_preview' = NoneV
    /\ loaded' = <<>>
    /\ after_load' = ""
    /\ IF ~vmix_api
       THEN /\ fetched' = <<>>
            /\ pc' = "idle"
       ELSE /\ fetched' = <<Fetch("get_active_input", resp)>>
            /\ pc' = "update_preview"
    /\ new_active' = IF vmix_api THEN get_active_input(resp) ELSE NoneV
    /\ status' = ""
    /\ UNCHANGED <<app, local, mixer>>

\* the comparison; on a difference both values are stored and load_inputs runs
mobile_update_states_preview(resp) ==
    /\ app = "mobile"
    /\ pc = "update_preview"
    /\ Continue
    /\ fetched' = Append(fetched, Fetch("get_preview_input", resp))
    /\ new_preview' = get_preview_input(resp)
    /\ IF new_active # active_input \/ new_preview' # preview_input
       THEN /\ active_input' = new_active
            /\ preview_input' = new_preview'
            /\ pc' = "load_inputs"
            /\ polls' = polls
       ELSE /\ UNCHANGED <<active_input, preview_input>>
            /\ pc' = "idle"
            /\ polls' = polls - 1
    /\ UNCHANGED <<app, vmix_api, connected, input_tiles, inputs, ftb_active,
                   ftb_timer, active_overlays, mixer, new_active, loaded, notified,
                   status, agreeing>>

----------------------------------------------------------------------------
\* the text of the IP field
IPs == {"", "192.168.0.10"}

\* the answers to the request a handler makes; one that returns before its
\* request gets none, and the one listed stands for "no request"
Answers(requesting) ==
    IF requesting THEN FetchResponses
    ELSE {[exc |-> "ConnectionError", status_code |-> 0, text |-> NoText]}

Next ==
    \/ \E n \in Range(input_tiles), r \in CommandResponses : on_tile_clicked(n, r)
    \/ \E r1, r2 \in CommandResponses : quick_play(r1, r2)
    \/ \E r \in CommandResponses : fade_to_black(r)
    \/ \E l \in Layers, r \in CommandResponses : overlay_selected(l, r)
    \/ \E rs \in [Layers -> CommandResults] : remove_overlay(rs)
    \/ \E ip \in IPs : \E r \in Answers(Truthy(ip)) : connect_to_vmix(ip, r)
    \/ refresh_inputs
    \/ \E r \in FetchResponses : load_inputs(r)
    \/ \E r \in FetchResponses : load_inputs_active(r)
    \/ \E r \in FetchResponses : load_inputs_preview(r)
    \/ \E r \in Answers(vmix_api) : update_states(r)
    \/ \E r \in FetchResponses : update_states_preview(r)
    \/ \E ip \in IPs : \E r \in Answers(Truthy(ip)) : mobile_connect_to_vmix(ip, r)
    \/ \E r \in FetchResponses : mobile_load_inputs(r)
    \/ \E r \in FetchResponses : mobile_load_inputs_active(r)
    \/ \E r \in FetchResponses : mobile_load_inputs_preview(r)
    \/ \E n \in Range(inputs), r \in CommandResponses : mobile_on_input_clicked(n, r)
    \/ \E r \in CommandResponses : mobile_quick_play(r)
    \/ \E r \in CommandResponses : mobile_fade_to_black(r)
    \/ \E l \in Layers, r \in CommandResponses : mobile_overlay_selected(l, r)
    \/ \E r \in Answers(vmix_api) : mobile_update_states(r)
    \/ \E r \in FetchResponses : mobile_update_states_preview(r)

Spec == Init /\ [][Next]_vars

----------------------------------------------------------------------------
(* The vMixAPI client on its own (src/main.py and src/mobile/main.py, class  *)
(* vMixAPI): one method is called on one outcome of requests.get.  Here a    *)
(* state document keeps what the decoder reads: the input elements with     *)
(* their number and title attributes, and the top-level active and preview  *)
(* elements with their character data.                                      *)

\* the longest input list of a document
MaxElements == 2

StatusCodes == {200, 204, 404, 500}

Bodies == {"", "Function completed successfully.", "<error/>"}

\* what requests.get can do for a command request
CommandOutcomes ==
    {[exc |-> TRUE, raised |-> e, status_code |-> 0, body |-> ""] :
        e \in {"ConnectionError", "Timeout", "Exception"}}
    \cup {[exc |-> FALSE, raised |-> "none", status_code |-> c, body |-> b] :
             c \in StatusCodes, b \in Bodies}

\* the title attribute of an input element: missing (NoneV), empty, or a name
Titles == {NoneV, "", "Camera"}

InputElements == [number : InputNumbers, title : Titles]

ElementLists == UNION {[1..k -> InputElements] : k \in 0..MaxElements}

\* a top-level element: absent, or present with its character data
NoElement == [present |-> FALSE, content |-> ""]

Elements == {NoElement} \cup {[present |-> TRUE, content |-> c] : c \in InputNumbers \cup {""}}

Documents == [active : Elements, preview : Elements, inputs : ElementLists]

\* what requests.get can do for a state fetch
StateResponses ==
    {[exc |-> "ConnectionError", status_code |-> 0, text |-> NoText],
     [exc |-> "Timeout", status_code |-> 0, text |-> NoText],
     [exc |-> "none", status_code |-> 500, text |-> GarbageText],
     [exc |-> "none", status_code |-> 200, text |-> EmptyText],
     [exc |-> "none", status_code |-> 200, text |-> GarbageText]}
    \cup {[exc |-> "none", status_code |-> 200, text |-> Xml(document)] :
             document \in Documents}

\* a variant that hands the character data on as it is
ElementText_raw(element) == element.content

\* Element.text: None for an element without character data
ElementText(element) == IF element.content = "" THEN NoneV ELSE element.content

\* `elem.text if elem is not None else None` on the result of root.find
find_text(element) == IF element.present THEN ElementText(element) ELSE NoneV

\* a variant whose default title leaves the number out
input_data_plain_default(input_elem) ==
    [number |-> input_elem.number,
     title |-> IF input_elem.title = NoneV THEN "Input" ELSE input_elem.title]

\* the dictionary built for one input element
input_data(input_elem) ==
    [number |-> input_elem.number,
     title |-> IF input_elem.title = NoneV
               THEN "Input " \o input_elem.number
               ELSE input_elem.title]

\* the loop over root.findall('inputs/input')
RECURSIVE findall_inputs(_, _)
findall_inputs(elements, result) ==
    IF elements = <<>> THEN result
    ELSE findall_inputs(Tail(elements), Append(result, input_data(Head(elements))))

\* get_inputs with the dictionaries it returns
get_inputs_data(resp) ==
    LET xml_data == get_xml_data(resp) IN
    IF ~XmlTruthy(xml_data) THEN <<>>
    ELSE IF ~Parses(xml_data) THEN <<>>
    ELSE findall_inputs(xml_data.doc.inputs, <<>>)

\* get_active_input on a document with character data
get_active_input_text(resp) ==
    LET xml_data == get_xml_data(resp) IN
    IF ~XmlTruthy(xml_data) THEN NoneV
    ELSE IF ~Parses(xml_data) THEN NoneV
    ELSE find_text(xml_data.doc.active)

\* get_preview_input on a document with character data
get_preview_input_text(resp) ==
    LET xml_data == get_xml_data(resp) IN
    IF ~XmlTruthy(xml_data) THEN NoneV
    ELSE IF ~Parses(xml_data) THEN NoneV
    ELSE find_text(xml_data.doc.preview)

controller == <<app, vmix_api, connected, input_tiles, inputs, active_input,
                preview_input, ftb_active, ftb_timer, active_overlays, status,
                mixer, pc, new_active, new_preview, loaded, after_load, op, sent,
                fetched, notified, agreeing, polls, optimistic>>

\* the outcome of the one request is fixed before the method is called
InitApi ==
    /\ Constructed
    /\ \/ \E resp \in CommandOutcomes :
             api_call = [function |-> "none", kind |-> "command",
                         response |-> resp, returned |-> "none"]
       \/ \E resp \in StateResponses :
             api_call = [function |-> "none", kind |-> "state",
                         response |-> resp, returned |-> "none"]

\* method `function` is called and returns `value`
Returns(function, value) ==
    /\ api_call' = [api_call EXCEPT !.function = function, !.returned = value]
    /\ UNCHANGED controller

call_send_command ==
    /\ api_call.function = "none" /\ api_call.kind = "command"
    /\ Returns("send_command", send_command(api_call.response))

call_get_inputs ==
    /\ api_call.function = "none" /\ api_call.kind = "state"
    /\ Returns("get_inputs", get_inputs_data(api_call.response))

call_get_active_input ==
    /\ api_call.function = "none" /\ api_call.kind = "state"
    /\ Returns("get_active_input", get_active_input_text(api_call.response))

call_get_preview_input ==
    /\ api_call.function = "none" /\ api_call.kind = "state"
    /\ Returns("get_preview_input", get_preview_input_text(api_call.response))

NextApi ==
    \/ call_send_command
    \/ call_get_inputs
    \/ call_get_active_input
    \/ call_get_preview_input

SpecApi == InitApi /\ [][NextApi]_vars


----------------------------------------------------------------------------
(* The desktop poll loop against a mixer that holds still (src/main.py,     *)
(* update_states on the 1000 ms timer): the controller is connected with    *)
(* its inputs loaded, the mixer's active and preview inputs no longer       *)
(* change, every fetch succeeds and no command is issued.  The timer keeps  *)
(* firing and each fetch returns within its timeout, so a tick that can run *)
(* does run.                                                                *)

\* the answer of the still mixer to a state fetch
Serving ==
    [exc |-> "none", status_code |-> 200,
     text |-> Xml([active |-> mixer.active, preview |-> mixer.preview,
                   inputs |-> InputList(NumInputs)])]

\* any state in which a connect has just loaded the inputs, and any mixer
InitPoll ==
    /\ app = "desktop"
    /\ vmix_api = TRUE
    /\ connected = FALSE
    /\ input_tiles = InputList(NumInputs)
    /\ inputs = <<>>
    /\ active_input \in ElementTexts
    /\ preview_input \in ElementTexts
    /\ ftb_active = FALSE
    /\ ftb_timer = FALSE
    /\ active_overlays = [l \in Layers |-> FALSE]
    /\ status = "Loaded inputs"
    /\ mixer \in [ftb : {FALSE}, active : ElementTexts, preview : ElementTexts]
    /\ pc = "idle"
    /\ new_active = NoneV
    /\ new_preview = NoneV
    /\ loaded = <<>>
    /\ after_load = ""
    /\ op = "connect_to_vmix"
    /\ sent = <<>>
    /\ fetched = <<[call |-> "get_xml_data", ok |-> TRUE],
                   [call |-> "get_inputs", ok |-> TRUE],
                   [call |-> "get_active_input", ok |-> TRUE],
                   [call |-> "get_preview_input", ok |-> TRUE]>>
    /\ notified = <<<<active_input, preview_input>>>>
    /\ agreeing = {}
    /\ polls = 0
    /\ optimistic = FALSE
    /\ api_call = NoCall

poll_update_states == update_states(Serving)

poll_update_states_preview == update_states_preview(Serving)

NextPoll ==
    \/ poll_update_states
    \/ poll_update_states_preview

SpecPoll == InitPoll /\ [][NextPoll]_vars /\ WF_vars(NextPoll)

----------------------------------------------------------------------------
(* Claims *)

Desktop == app = "desktop"

\* the step is a call of handler `name`: every handler starts from Idle and
\* puts its name in op
Call(name) == Idle /\ op' = name /\ vars' # vars

\* the last quick_play sent Fade, which failed, and then Cut
FadeFailed(s) ==
    /\ Len(s) = 2
    /\ s[1].command = "Fade" /\ ~s[1].ok
    /\ s[2].command = "Cut"

\* C1: desktop quick_play, connected and with a preview p: when Fade{Input=p}
\* fails and Cut{Input=p} succeeds, the call ends with active_input = p and
\* shows the success message of the cut, not the transition error.
C1_CutFallbackSucceeds ==
    (Desktop /\ Idle /\ op = "quick_play" /\ FadeFailed(sent) /\ sent[2].ok)
        => /\ Truthy(preview_input)
           /\ sent[1].Input = preview_input
           /\ sent[2].Input = preview_input
           /\ active_input = preview_input
           /\ status = "Cut transition"

C1_Witness ==
    /\ Desktop /\ Idle /\ op = "quick_play"
    /\ FadeFailed(sent) /\ sent[2].ok
    /\ active_input = preview_input
    /\ active_input = InputList(NumInputs)[1]

\* C2: desktop quick_play shows the transition error exactly when both the
\* Fade and the Cut request failed, and then active_input, preview_input, the
\* overlay flags and ftb_active are what they were before the call.
C2_ErrorIffBothFail ==
    [][(Desktop /\ Call("quick_play"))
         => /\ (status' = "Transition error") <=> (FadeFailed(sent') /\ ~sent'[2].ok)
            /\ (FadeFailed(sent') /\ ~sent'[2].ok)
                 => UNCHANGED <<active_input, preview_input, active_overlays, ftb_active>>]_vars

C2_Witness ==
    /\ Desktop /\ Idle /\ op = "quick_play"
    /\ FadeFailed(sent) /\ ~sent[2].ok
    /\ status = "Transition error"
    /\ active_input # preview_input

\* C3: in both controllers, quick play and overlay toggle called while
\* preview_input is None or empty send no request at all, leave every field
\* of the controller as it was and show the precondition message.
C3_NoPreviewNoRequest ==
    [][((Call("quick_play") \/ Call("overlay_selected")) /\ ~Truthy(preview_input))
         => /\ sent' = <<>>
            /\ fetched' = <<>>
            /\ pc' = "idle"
            /\ UNCHANGED <<local, mixer>>
            /\ status' \in {"Select input in preview first!", "Select preview first"}]_vars

C3_Witness ==
    /\ app = "mobile" /\ Idle /\ op = "quick_play"
    /\ vmix_api /\ connected
    /\ ~Truthy(preview_input)
    /\ sent = <<>>
    /\ status = "Select preview first"

\* C4: desktop on_tile_clicked(number): when the PreviewInput request succeeds
\* preview_input is number as soon as the call returns, with no state fetch;
\* when it fails preview_input keeps its value.
C4_TileClickSetsPreview ==
    [][(Desktop /\ Call("on_tile_clicked") /\ vmix_api)
         => /\ Len(sent') = 1
            /\ sent'[1].command = "PreviewInput"
            /\ pc' = "idle" /\ fetched' = <<>>
            /\ sent'[1].ok => preview_input' = sent'[1].Input
            /\ ~sent'[1].ok => preview_input' = preview_input]_vars

C4_Witness ==
    /\ Desktop /\ Idle /\ op = "on_tile_clicked"
    /\ Len(sent) = 1 /\ sent[1].ok
    /\ preview_input = sent[1].Input
    /\ active_input # preview_input

FtbErrors == {"Fade To Black error", "Fade To Black disable error"}

\* C5: desktop fade_to_black: whenever the FadeToBlack request fails, turning
\* fade-to-black on or off, ftb_active after the call is what it was before
\* and an error message is shown.
C5_FailedToggleReverts ==
    [][(Desktop /\ Call("fade_to_black") /\ vmix_api /\ ~sent'[1].ok)
         => /\ ftb_active' = ftb_active
            /\ status' \in FtbErrors]_vars

\* C6: desktop, with a mixer that starts with fade-to-black off and toggles it
\* exactly on a FadeToBlack request answered with 200: after any sequence of
\* fade_to_black calls ftb_active is the mixer's fade-to-black state.
C6_FtbMatchesMixer == (Desktop /\ Idle) => ftb_active = mixer.ftb

\* C7: desktop fade_to_black twice from ftb_active = FALSE, the first request
\* succeeding and the second failing: ftb_active ends FALSE and the second
\* call shows an error message.
C7_SecondFailureReported ==
    [][(/\ Desktop /\ op = "fade_to_black" /\ Len(sent) = 1 /\ sent[1].ok /\ ftb_active
        /\ Call("fade_to_black") /\ vmix_api /\ ~sent'[1].ok)
         => /\ ftb_active' = FALSE
            /\ status' \in FtbErrors]_vars

\* C8: desktop overlay_selected(layer) with a preview selected: when the
\* OverlayInput{layer} request succeeds the flag of that layer is negated and
\* the other three keep their values; when it fails all four keep theirs.
C8_OverlayFlipsOneLayer ==
    [][(Desktop /\ Call("overlay_selected") /\ vmix_api /\ Truthy(preview_input))
         => /\ Len(sent') = 1
            /\ sent'[1].Input = preview_input
            /\ \E l \in Layers :
                  /\ sent'[1].command = OverlayInput(l)
                  /\ active_overlays' =
                        IF sent'[1].ok
                        THEN [k \in Layers |-> IF k = l THEN ~active_overlays[k]
                                                         ELSE active_overlays[k]]
                        ELSE active_overlays]_vars

C8_Witness ==
    /\ Desktop /\ Idle /\ op = "overlay_selected"
    /\ Len(sent) = 1 /\ sent[1].ok
    /\ sent[1].command = OverlayInput(2)
    /\ active_overlays = [k \in Layers |-> k = 3]

\* C9: desktop remove_overlay while connected: whichever of the four Out
\* requests fail, the call sends OverlayInput1Out .. OverlayInput4Out in this
\* order, ends with all four flags FALSE and shows the success message.
C9_RemoveOverlayClearsAll ==
    (Desktop /\ Idle /\ op = "remove_overlay" /\ vmix_api)
        => /\ Len(sent) = 4
           /\ \A l \in Layers : sent[l].command = OverlayInput(l) \o "Out"
           /\ \A l \in Layers : ~active_overlays[l]
           /\ status = "All overlays removed"

C9_Witness ==
    /\ Desktop /\ Idle /\ op = "remove_overlay" /\ vmix_api
    /\ Len(sent) = 4
    /\ \A l \in Layers : sent[l].ok <=> l # 3
    /\ \A l \in Layers : ~active_overlays[l]
    /\ status = "All overlays removed"

\* C10: desktop update_states: a tick whose two fetched values are the stored
\* active_input and preview_input refreshes no label and changes nothing; a
\* tick in which one of them differs stores both fetched values and refreshes
\* the labels exactly once, with the new values.
C10_PollNotifiesOnChange ==
    [][/\ (Desktop /\ Call("update_states")) => (UNCHANGED local /\ notified' = <<>>)
       /\ (Desktop /\ pc = "update_preview" /\ pc' = "idle")
            => IF new_active = active_input /\ new_preview' = preview_input
               THEN notified' = <<>> /\ UNCHANGED local
               ELSE /\ active_input' = new_active
                    /\ preview_input' = new_preview'
                    /\ notified' = <<<<new_active, new_preview'>>>>
                    /\ UNCHANGED <<vmix_api, input_tiles, ftb_active, ftb_timer,
                                   active_overlays>>]_vars

C10_Witness ==
    /\ Desktop /\ Idle /\ op = "update_states"
    /\ Len(fetched) = 2 /\ fetched[1].ok /\ fetched[2].ok
    /\ notified = <<<<active_input, preview_input>>>>
    /\ Truthy(active_input) /\ Truthy(preview_input)
    /\ active_input # preview_input

\* the fetch a step has just made failed in the request or in the decode
LastFetchFailed == fetched' # <<>> /\ ~fetched'[Len(fetched')].ok

\* C11: in both controllers a poll tick in which a state fetch or its decode
\* fails leaves active_input and preview_input as they were before the tick.
\* The step taken is the tick's comparison, where update_states stores.
C11_FailedPollKeepsState ==
    [][(/\ pc = "update_preview" /\ pc' # "update_preview"
        /\ (~fetched'[1].ok \/ ~fetched'[2].ok))
         => UNCHANGED <<active_input, preview_input>>]_vars

\* C12: desktop, once connected: a poll tick, failed or not, keeps vmix_api
\* set, and every tick that starts while it is set sends its fetches; vmix_api
\* is reset only by a connect attempt whose fetch failed.
C12_FailedPollsStayConnected ==
    [][Desktop =>
         /\ (vmix_api /\ ~vmix_api')
               => /\ Call("connect_to_vmix")
                  /\ ~fetched'[1].ok
                  /\ status' = "Failed to connect to vMix"
         /\ (vmix_api /\ Call("update_states"))
               => (vmix_api' /\ Len(fetched') = 1 /\ pc' = "update_preview")
         /\ (pc = "update_preview" /\ pc' # "update_preview")
               => (vmix_api' /\ Len(fetched') = 2)]_vars

C12_Witness ==
    /\ Desktop /\ Idle /\ op = "update_states"
    /\ vmix_api
    /\ Len(fetched) = 2 /\ ~fetched[1].ok /\ ~fetched[2].ok
    /\ input_tiles # <<>>

\* the handler that ran last ended in a load_inputs whose three fetches all
\* succeeded
LoadCompleted ==
    /\ Idle
    /\ Len(fetched) >= 3
    /\ fetched[Len(fetched) - 2].call = "get_inputs"
    /\ \A i \in 0..2 : fetched[Len(fetched) - i].ok

\* C13: in both controllers the input list, active_input and preview_input
\* installed by one load_inputs call are those of one snapshot the call
\* fetched, also when the mixer changes between the requests.
C13_OneSnapshot ==
    LoadCompleted
        => \E snapshot \in agreeing :
              /\ snapshot.active = active_input
              /\ snapshot.preview = preview_input
              /\ snapshot.inputs = IF Desktop THEN input_tiles ELSE inputs

\* C14: in both controllers a load_inputs call whose fetch or decode fails
\* leaves the known input list, active_input and preview_input unchanged.
\* Each of the three is assigned at most once per call, by the step named.
C14_FailedLoadKeepsState ==
    [][/\ (pc = "load_inputs" /\ LastFetchFailed) => UNCHANGED <<input_tiles, inputs>>
       /\ (pc = "load_active" /\ LastFetchFailed) => UNCHANGED active_input
       /\ (pc = "load_preview" /\ LastFetchFailed) => UNCHANGED preview_input]_vars

\* C15: desktop: after every connect that succeeded, a reconnect included,
\* the four overlay flags and ftb_active are FALSE.
C15_ConnectResetsOverlaysAndFtb ==
    (Desktop /\ op = "connect_to_vmix" /\ fetched # <<>> /\ fetched[1].ok)
        => /\ \A l \in Layers : ~active_overlays[l]
           /\ ~ftb_active

\* C16: desktop: a connect attempt whose fetch fails returns with vmix_api
\* None and its message, and while vmix_api is None no handler but a connect
\* attempt sends a fetch or a command; vmix_api is set again only by a connect
\* whose fetch succeeded.
C16_FailedConnectSendsNothing ==
    [][Desktop =>
         /\ (Call("connect_to_vmix") /\ fetched' # <<>> /\ ~fetched'[1].ok)
               => /\ ~vmix_api'
                  /\ pc' = "idle"
                  /\ status' = "Failed to connect to vMix"
         /\ (~vmix_api /\ ~Call("connect_to_vmix"))
               => /\ sent' = <<>> /\ fetched' = <<>>
                  /\ pc' = "idle"
                  /\ ~vmix_api'
                  /\ UNCHANGED mixer
         /\ (~vmix_api /\ vmix_api')
               => (Call("connect_to_vmix") /\ fetched'[1].ok)]_vars

\* fade-to-black was turned on while connected, a later connect attempt
\* failed, and the tick that followed sent nothing
C16_Witness ==
    /\ Desktop /\ Idle /\ op = "update_states"
    /\ ~vmix_api /\ ftb_active
    /\ fetched = <<>> /\ sent = <<>>

\* C17: mobile: an update_states tick sends state fetches only while
\* connected is True; before any connect and after a failed attempt it sends
\* none.
C17_PollOnlyWhenConnected ==
    [][(app = "mobile" /\ Call("update_states") /\ ~connected)
         => (fetched' = <<>> /\ pc' = "idle")]_vars

\* C18: desktop: a poll tick and a relist, succeeding or failing, leave the
\* four overlay flags and ftb_active unchanged; the flags change only in
\* overlay_selected and remove_overlay, ftb_active only in fade_to_black.
C18_OverlaysFtbOnlyByCommands ==
    [][Desktop =>
         /\ (~Idle \/ Call("update_states") \/ Call("refresh_inputs"))
               => UNCHANGED <<active_overlays, ftb_active>>
         /\ (active_overlays' # active_overlays)
               => (Call("overlay_selected") \/ Call("remove_overlay"))
         /\ (ftb_active' # ftb_active) => Call("fade_to_black")]_vars

C18_Witness ==
    /\ Desktop /\ Idle /\ op = "refresh_inputs"
    /\ status = "Failed to get inputs list"
    /\ ftb_active /\ active_overlays[2] /\ ~active_overlays[1]

\* C19: desktop: a poll tick never changes the keys of input_tiles or their
\* order; they change only inside the load_inputs of a connect or a refresh.
C19_PollKeepsInputList ==
    [][Desktop =>
         /\ (Call("update_states") \/ pc = "update_preview") => UNCHANGED input_tiles
         /\ (input_tiles' # input_tiles)
               => /\ pc \in {"load_inputs", "load_preview"}
                  /\ op \in {"connect_to_vmix", "refresh_inputs"}]_vars

C19_Witness ==
    /\ Desktop /\ Idle /\ op = "update_states"
    /\ Len(fetched) = 2 /\ fetched[1].ok /\ fetched[2].ok
    /\ notified # <<>>
    /\ input_tiles = InputList(NumInputs)

\* C20: poll ticks never overlap: at every moment at most one update_states
\* call has started and not returned.
C20_PollsNeverOverlap == polls <= 1

C20_Witness ==
    /\ Desktop /\ polls = 1
    /\ pc = "update_preview" /\ op = "update_states"
    /\ Len(fetched) = 1

\* C21: desktop: after an on_tile_clicked or quick_play that stored its value,
\* the next poll tick whose two fetches succeed ends with active_input and
\* preview_input equal to the two values the mixer reported in that tick.
C21_LastFetchWins ==
    [][(/\ Desktop /\ optimistic
        /\ pc = "update_preview" /\ pc' = "idle"
        /\ fetched'[1].ok /\ fetched'[2].ok)
         => /\ active_input' = new_active
            /\ preview_input' = new_preview']_vars

\* the tick after a stored preview has replaced it by what the mixer reported
C21_Witness ==
    /\ Desktop /\ Idle /\ op = "update_states" /\ optimistic
    /\ Len(fetched) = 2 /\ fetched[1].ok /\ fetched[2].ok
    /\ active_input = new_active /\ preview_input = new_preview
    /\ notified # <<>>
    /\ ~Truthy(preview_input)

\* C22: desktop: an overlay flag that is TRUE becomes FALSE only in
\* remove_overlay; no other operation, overlay_selected included, clears it.
C22_FlagClearedOnlyByRemove ==
    [][Desktop =>
         \A l \in Layers :
            (active_overlays[l] /\ ~active_overlays'[l]) => Call("remove_overlay")]_vars

\* C23: desktop: after every fade_to_black call, whatever the requests of the
\* calls so far returned, the blink timer runs exactly when ftb_active is TRUE.
C23_BlinkTimerLockstep ==
    (Desktop /\ Idle /\ op = "fade_to_black") => (ftb_timer <=> ftb_active)

\* C24: send_command returns True exactly when requests.get returned a
\* response with status 200, whatever its body; on any other status and on
\* any exception it returns False.
C24_SuccessIsStatus200 ==
    (api_call.function = "send_command")
        => /\ api_call.returned \in BOOLEAN
           /\ api_call.returned
                <=> (~api_call.response.exc /\ api_call.response.status_code = 200)

C24_Witness ==
    /\ api_call.function = "send_command"
    /\ api_call.response.status_code = 200
    /\ api_call.response.body = "<error/>"
    /\ api_call.returned = TRUE

\* C25: desktop: a call of on_tile_clicked, fade_to_black or overlay_selected
\* that gets past its guard sends exactly one request; quick_play sends one
\* Fade and then one Cut exactly when the Fade failed; remove_overlay sends
\* exactly four requests; each call returns, every request with its result.
C25_NoRetry ==
    (Desktop /\ op \in {"on_tile_clicked", "fade_to_black", "overlay_selected",
                        "quick_play", "remove_overlay"})
        => /\ Idle
           /\ \A i \in DOMAIN sent : sent[i].ok \in BOOLEAN
           /\ (op \in {"on_tile_clicked", "fade_to_black"} /\ vmix_api) => Len(sent) = 1
           /\ (op = "overlay_selected" /\ vmix_api /\ Truthy(preview_input))
                 => Len(sent) = 1
           /\ (op = "quick_play" /\ vmix_api /\ Truthy(preview_input))
                 => /\ Len(sent) \in {1, 2}
                    /\ sent[1].command = "Fade"
                    /\ Len(sent) = 2 <=> ~sent[1].ok
                    /\ Len(sent) = 2 => sent[2].command = "Cut"
           /\ (op = "remove_overlay" /\ vmix_api) => Len(sent) = 4
           /\ Len(sent) <= 4

C25_Witness ==
    /\ Desktop /\ Idle /\ op = "quick_play"
    /\ Len(sent) = 1 /\ sent[1].command = "Fade" /\ sent[1].ok
    /\ status = "Smooth transition"

\* the document of a fetch that succeeded, for the method called on it
Decoded == api_call.response.text.doc

FetchedXml ==
    /\ api_call.kind = "state"
    /\ api_call.response.exc = "none"
    /\ api_call.response.status_code = 200
    /\ api_call.response.text.kind = "xml"

\* C26: get_inputs on a well-formed document with N input elements returns N
\* records in document order, each with its element's number; an element
\* without a title attribute gets the title "Input " followed by its number.
C26_InputsInDocumentOrder ==
    (api_call.function = "get_inputs" /\ FetchedXml)
        => /\ Len(api_call.returned) = Len(Decoded.inputs)
           /\ \A i \in DOMAIN Decoded.inputs :
                 /\ api_call.returned[i].number = Decoded.inputs[i].number
                 /\ (Decoded.inputs[i].title = NoneV)
                       => api_call.returned[i].title = "Input " \o Decoded.inputs[i].number
                 /\ (Decoded.inputs[i].title # NoneV)
                       => api_call.returned[i].title = Decoded.inputs[i].title

C26_Witness ==
    /\ api_call.function = "get_inputs" /\ FetchedXml
    /\ Len(Decoded.inputs) = MaxElements
    /\ Decoded.inputs[1] = [number |-> "2", title |-> NoneV]
    /\ Decoded.inputs[MaxElements] = [number |-> "1", title |-> "Camera"]
    /\ api_call.returned[1] = [number |-> "2", title |-> "Input 2"]

\* the element the method called looks for
Sought ==
    IF api_call.function = "get_active_input" THEN Decoded.active ELSE Decoded.preview

\* C27, as stated: on every fetched document get_active_input returns exactly
\* the text of the active element when it is present and None when it is
\* absent; get_preview_input likewise for the preview element.
C27_ExactText ==
    (api_call.function \in {"get_active_input", "get_preview_input"} /\ FetchedXml)
        => api_call.returned = IF Sought.present THEN Sought.content ELSE NoneV

\* C27, amended: the text is returned when the element is present and has
\* character data; None is returned when it is absent or empty.
C27_TextOrNone ==
    (api_call.function \in {"get_active_input", "get_preview_input"} /\ FetchedXml)
        => api_call.returned = IF Sought.present /\ Sought.content # ""
                               THEN Sought.content
                               ELSE NoneV

C27_Witness ==
    /\ api_call.function = "get_preview_input" /\ FetchedXml
    /\ Decoded.preview = [present |-> TRUE, content |-> ""]
    /\ Decoded.active = [present |-> TRUE, content |-> "1"]
    /\ api_call.returned = NoneV

\* C28: mobile: local state changes only when the command succeeded: the
\* assignment of on_input_clicked leaves preview_input, that of quick_play
\* leaves active_input and fade_to_black leaves ftb_active as it was when the
\* request failed.
C28_MobileStoresOnlyOnSuccess ==
    [][(app = "mobile" /\ Idle /\ sent' # <<>> /\ ~sent'[1].ok)
         => /\ (op' = "on_input_clicked") => preview_input' = preview_input
            /\ (op' = "quick_play") => active_input' = active_input
            /\ (op' = "fade_to_black") => ftb_active' = ftb_active]_vars

\* C29: mobile quick_play with a preview selected: when the Fade request
\* fails, exactly one Cut request for the preview input follows it.
C29_MobileCutFallback ==
    [][(/\ app = "mobile" /\ Call("quick_play")
        /\ vmix_api /\ Truthy(preview_input)
        /\ ~sent'[1].ok)
         => /\ Len(sent') = 2
            /\ sent'[2].command = "Cut"
            /\ sent'[2].Input = preview_input]_vars

\* C30: desktop: the pair (active_input, preview_input) a poll tick stores is
\* the (active, preview) pair of one snapshot the tick fetched, also when the
\* mixer changes or one request fails between the two fetches.
C30_TickStoresOneSnapshot ==
    (/\ Desktop /\ Idle /\ op = "update_states"
     /\ notified # <<>>
     /\ \E i \in DOMAIN fetched : fetched[i].ok)
        => [active |-> active_input, preview |-> preview_input] \in agreeing

\* what no desktop command handler touches
Fixed == <<vmix_api, connected, input_tiles, inputs>>

\* C31: desktop: on_tile_clicked changes no local state but preview_input,
\* quick_play none but active_input, fade_to_black none but ftb_active and
\* the blink timer, overlay_selected and remove_overlay none but
\* active_overlays.
C31_CommandFrame ==
    [][(Desktop /\ Idle) =>
         /\ (op' = "on_tile_clicked")
               => UNCHANGED <<Fixed, active_input, ftb_active, ftb_timer, active_overlays>>
         /\ (op' = "quick_play")
               => UNCHANGED <<Fixed, preview_input, ftb_active, ftb_timer, active_overlays>>
         /\ (op' = "fade_to_black")
               => UNCHANGED <<Fixed, active_input, preview_input, active_overlays>>
         /\ (op' \in {"overlay_selected", "remove_overlay"})
               => UNCHANGED <<Fixed, active_input, preview_input, ftb_active,
                              ftb_timer>>]_vars

C31_Witness ==
    /\ Desktop /\ Idle /\ op = "remove_overlay" /\ vmix_api
    /\ Len(sent) = 4
    /\ ftb_active /\ ftb_timer
    /\ input_tiles # <<>>
    /\ Truthy(active_input) /\ Truthy(preview_input)
    /\ active_input # preview_input

\* the controller shows what the mixer has
Converged ==
    /\ active_input = mixer.active
    /\ preview_input = mixer.preview

\* C32: desktop, connected: once the mixer's active and preview stop
\* changing, no command is issued and every fetch succeeds, then with the
\* poll timer firing fairly active_input and preview_input eventually equal
\* the mixer's values and stay equal from then on.
C32_PollConverges == <>[]Converged

C32_Witness ==
    /\ Desktop /\ Idle /\ op = "update_states"
    /\ Len(fetched) = 2
    /\ notified # <<>>
    /\ Converged
    /\ Truthy(active_input) /\ ~Truthy(preview_input)

====
